---- MODULE Spec2Model ----
(***************************************************************************)
(* The AI-CRM backend (backend/app): the interactions table, the REST      *)
(* endpoints save_interaction / get_all_interactions and the tool dispatch *)
(* of invoke_agent (log, query, edit, suggest, fetch clinical data).       *)
(*                                                                         *)
(* Python values are tagged tuples: None, Str(chars), IntVal(n),           *)
(* Date(chars), Time(chars), DateTime(n).  A string is a sequence of       *)
(* one-character strings, so that lower(), LIKE matching and date parsing  *)
(* are computed character by character as the code computes them.         *)
(***************************************************************************)
EXTENDS Integers, Sequences, FiniteSets, TLC

VARIABLES store, nextId, now, edits, request, response, sessions

vars == <<store, nextId, now, edits, request, response, sessions>>

----------------------------------------------------------------------------
(* Bounds of the model *)

\* at most this many rows are ever inserted
MaxRecords == 2
\* at most this many edit_interaction dispatches reach an existing row
MaxEdits == 1
\* this many edit requests run at the same time, each in its own db session
MaxRequests == 2

----------------------------------------------------------------------------
(* Python values *)

None == <<"None">>
Str(s) == <<"str", s>>
IntVal(n) == <<"int", n>>
Date(s) == <<"date", s>>
Time(s) == <<"time", s>>
DateTime(n) == <<"datetime", n>>

IsNone(v) == v[1] = "None"
IsStr(v) == v[1] = "str"
IsInt(v) == v[1] = "int"

\* mutant of Truthy: only None is falsy
Truthy_NotNone(v) == v[1] # "None"

\* Python truthiness of a value: None, "" and 0 are falsy
Truthy(v) ==
    CASE v[1] = "None" -> FALSE
      [] v[1] = "str" -> Len(v[2]) > 0
      [] v[1] = "int" -> v[2] # 0
      [] OTHER -> TRUE

UpperChars == <<"A","B","C","D","E","F","G","H","I","J","K","L","M",
                "N","O","P","Q","R","S","T","U","V","W","X","Y","Z">>
LowerChars == <<"a","b","c","d","e","f","g","h","i","j","k","l","m",
                "n","o","p","q","r","s","t","u","v","w","x","y","z">>

\* the lower-case letter of an upper-case ASCII letter, any other character as is
ToLowerChar(c) ==
    LET hit == {i \in 1..26 : UpperChars[i] = c}
    IN  IF hit = {} THEN c ELSE LowerChars[CHOOSE i \in hit : TRUE]

RECURSIVE lower(_)
\* str.lower()
lower(s) ==
    IF Len(s) = 0 THEN <<>> ELSE <<ToLowerChar(Head(s))>> \o lower(Tail(s))

Digits == <<"0","1","2","3","4","5","6","7","8","9">>

IsDigit(c) == \E i \in 1..10 : Digits[i] = c
DigitVal(c) == (CHOOSE i \in 1..10 : Digits[i] = c) - 1

RECURSIVE IntStr(_)
\* str(n) of a non-negative int
IntStr(n) ==
    IF n < 10 THEN <<Digits[n + 1]>>
    ELSE IntStr(n \div 10) \o <<Digits[(n % 10) + 1]>>

\* what an f-string's {v} renders
PyStr(v) ==
    CASE v[1] = "None" -> <<"N","o","n","e">>
      [] v[1] = "int" -> IntStr(v[2])
      [] OTHER -> v[2]

----------------------------------------------------------------------------
(* SQL LIKE and ILIKE *)

RECURSIVE LikeFrom(_, _, _, _)
\* whether s from position j on matches p from position i on
LikeFrom(p, i, s, j) ==
    IF i > Len(p) THEN j > Len(s)
    ELSE IF p[i] = "%"
         THEN LikeFrom(p, i + 1, s, j) \/ (j <= Len(s) /\ LikeFrom(p, i, s, j + 1))
         ELSE /\ j <= Len(s)
              /\ (p[i] = "_" \/ p[i] = s[j])
              /\ LikeFrom(p, i + 1, s, j + 1)

\* s LIKE p: % matches any run of characters, _ any one character
LikeMatch(p, s) == LikeFrom(p, 1, s, 1)

\* column.ilike(pattern): LIKE on the case-folded operands
ilike(column, pattern) == LikeMatch(lower(pattern), lower(column))

\* the f"%{hcp_name}%" pattern of the history filters
HistoryPattern(hcp_name) == <<"%">> \o PyStr(hcp_name) \o <<"%">>

----------------------------------------------------------------------------
(* Dates and times of day: datetime.date / datetime.time parsing *)

DaysInMonth(y, m) ==
    IF m \in {4, 6, 9, 11} THEN 30
    ELSE IF m = 2
         THEN (IF (y % 4 = 0 /\ y % 100 # 0) \/ y % 400 = 0 THEN 29 ELSE 28)
         ELSE 31

Num2(s, i) == 10 * DigitVal(s[i]) + DigitVal(s[i + 1])

\* a calendar date YYYY-MM-DD
IsIsoDate(s) ==
    /\ Len(s) = 10
    /\ s[5] = "-" /\ s[8] = "-"
    /\ \A i \in {1, 2, 3, 4, 6, 7, 9, 10} : IsDigit(s[i])
    /\ LET y == 100 * Num2(s, 1) + Num2(s, 3)
           m == Num2(s, 6)
           d == Num2(s, 9)
       IN  y >= 1 /\ m \in 1..12 /\ d >= 1 /\ d <= DaysInMonth(y, m)

\* a time of day HH:MM or HH:MM:SS
IsIsoTime(s) ==
    /\ Len(s) \in {5, 8}
    /\ s[3] = ":"
    /\ \A i \in {1, 2, 4, 5} : IsDigit(s[i])
    /\ Num2(s, 1) < 24 /\ Num2(s, 4) < 60
    /\ Len(s) = 8 =>
          s[6] = ":" /\ IsDigit(s[7]) /\ IsDigit(s[8]) /\ Num2(s, 7) < 60

\* n in two digits
Pad2(n) == <<Digits[(n \div 10) + 1], Digits[(n % 10) + 1]>>

\* date.isoformat() of the date parsed from s: YYYY-MM-DD
DateIsoFormat(s) ==
    Pad2(Num2(s, 1)) \o Pad2(Num2(s, 3)) \o <<"-">> \o Pad2(Num2(s, 6))
        \o <<"-">> \o Pad2(Num2(s, 9))

\* time.isoformat() of the time parsed from s: HH:MM:SS, the seconds always
\* written
TimeIsoFormat(s) ==
    Pad2(Num2(s, 1)) \o <<":">> \o Pad2(Num2(s, 4)) \o <<":">>
        \o Pad2(IF Len(s) = 8 THEN Num2(s, 7) ELSE 0)

----------------------------------------------------------------------------
(* The interactions table and the pydantic schemas *)

\* the ten fields of schemas.InteractionBase
SchemaFields ==
    {"hcp_name", "interaction_type", "interaction_date", "interaction_time",
     "attendees", "topics_discussed", "materials_shared", "observed_sentiment",
     "outcomes", "follow_up_actions"}

\* the columns of models.Interaction
Columns == {"id", "created_at"} \cup SchemaFields

\* attributes every declarative model instance has besides its columns
OrmAttributes == {"metadata", "registry"}

\* hasattr(interaction, field)
hasattr(field) == field \in Columns \cup OrmAttributes

IdOf(r) == r.id[2]

\* InteractionCreate(**body): pydantic's validation of one field
CreateFieldValid(f, v) ==
    CASE f = "hcp_name" -> IsStr(v)
      [] f = "interaction_date" -> IsNone(v) \/ (IsStr(v) /\ IsIsoDate(v[2]))
      [] f = "interaction_time" -> IsNone(v) \/ (IsStr(v) /\ IsIsoTime(v[2]))
      [] OTHER -> IsNone(v) \/ IsStr(v)

\* the value pydantic hands on: dates and times are parsed, the rest is kept
CreateFieldParsed(f, v) ==
    CASE f = "interaction_date" /\ IsStr(v) -> Date(v[2])
      [] f = "interaction_time" /\ IsStr(v) -> Time(v[2])
      [] OTHER -> v

InteractionCreateValid(body) == \A f \in SchemaFields : CreateFieldValid(f, body[f])

\* models.Interaction(**interaction.model_dump()) as inserted: the store
\* assigns id, created_at defaults to utcnow
NewRow(body, id, t) ==
    [c \in Columns |->
        CASE c = "id" -> IntVal(id)
          [] c = "created_at" -> DateTime(t)
          [] OTHER -> CreateFieldParsed(c, body[c])]

\* InteractionRead.from_orm(row): the types InteractionRead declares
InteractionReadValid(r) ==
    /\ IsInt(r.id)
    /\ r.created_at[1] = "datetime"
    /\ IsStr(r.hcp_name)
    /\ IsNone(r.interaction_date) \/ r.interaction_date[1] = "date"
    /\ IsNone(r.interaction_time) \/ r.interaction_time[1] = "time"
    /\ \A f \in SchemaFields \ {"hcp_name", "interaction_date", "interaction_time"} :
          IsNone(r[f]) \/ IsStr(r[f])

\* the parameter bound for a column of an UPDATE: <<TRUE, stored value>>, or
\* <<FALSE, None>> when the statement fails.  A string bound to a Date or Time
\* column is cast by the database when dbCasts (PostgreSQL) and refused
\* otherwise (SQLite's Date and Time types take date and time objects only).
BindColumn(c, v, dbCasts) ==
    CASE c = "id" -> <<IsInt(v), v>>
      [] c = "created_at" -> <<IsNone(v) \/ v[1] = "datetime", v>>
      [] c = "hcp_name" -> <<IsStr(v), v>>
      [] c = "interaction_date" ->
            IF IsStr(v) THEN <<dbCasts /\ IsIsoDate(v[2]), Date(v[2])>>
            ELSE <<IsNone(v) \/ v[1] = "date", v>>
      [] c = "interaction_time" ->
            IF IsStr(v) THEN <<dbCasts /\ IsIsoTime(v[2]), Time(v[2])>>
            ELSE <<IsNone(v) \/ v[1] = "time", v>>
      [] OTHER -> <<IsNone(v) \/ IsStr(v), v>>

AgentResponse(response_type, data) ==
    [status_code |-> 200, response_type |-> response_type, data |-> data]

HTTPException(status_code, detail) ==
    [status_code |-> status_code, response_type |-> "HTTPException", data |-> <<detail>>]

ToolError == HTTPException(500, "An error occurred while executing the tool.")

TextMessage(parts) == AgentResponse("text_message", parts)

\* AgentResponse(form_data, InteractionRead.from_orm(row).model_dump()); a row
\* InteractionRead refuses raises inside the try block
FormDataOf(row) ==
    IF InteractionReadValid(row) THEN AgentResponse("form_data", row) ELSE ToolError

----------------------------------------------------------------------------
(* agent.MOCK_CLINICAL_DATA *)

MOCK_CLINICAL_DATA ==
    [k \in {<<"v","a","l","c","o","r">>,
            <<"a","e","t","h","e","r","-","d">>,
            <<"s","o","l","a","r","a">>,
            <<"p","a","r","a","c","e","t","a","m","o","l">>,
            <<"d","o","l","o","-","6","5","0">>} |->
        CASE k = <<"v","a","l","c","o","r">> ->
               "Valcor (VAL-123) Phase 3 trials showed a 45% reduction in primary endpoints vs. placebo..."
          [] k = <<"a","e","t","h","e","r","-","d">> ->
               "Aether-D is a combination therapy approved for type-2 diabetes..."
          [] k = <<"s","o","l","a","r","a">> ->
               "Solara is an immunomodulator currently in Phase 2 for treating rheumatoid arthritis..."
          [] k = <<"p","a","r","a","c","e","t","a","m","o","l">> ->
               "Paracetamol is a widely used analgesic and antipyretic..."
          [] OTHER ->
               "Dolo 650 is a high-strength formulation of paracetamol (650 mg)..."]

\* MOCK_CLINICAL_DATA.get(key, default)
ClinicalDataGet(key, default) ==
    IF key \in DOMAIN MOCK_CLINICAL_DATA THEN MOCK_CLINICAL_DATA[key] ELSE default

----------------------------------------------------------------------------
(* Queries on the table *)

\* filter(Interaction.hcp_name.ilike(f"%{hcp_name}%"))
History(hcp_name) ==
    {r \in store : ilike(r.hcp_name[2], HistoryPattern(hcp_name))}

\* order_by(Interaction.id.desc()) ... first() of a non-empty result
Latest(rows) == CHOOSE r \in rows : \A q \in rows : IdOf(q) <= IdOf(r)

\* mutant of ById: a null id leaves the filter out
ById_NullUnfiltered(interaction_id) ==
    IF interaction_id[1] = "None" THEN store
    ELSE {r \in store : r.id = interaction_id}

\* filter(Interaction.id == interaction_id)
ById(interaction_id) == {r \in store : r.id = interaction_id}

----------------------------------------------------------------------------
(* The edit: setattr loop, commit, refresh *)

\* mutant of SetAttrs: an unknown key aborts the whole loop
SetAttrs_AbortOnUnknown(row, updates) ==
    IF \A k \in DOMAIN updates : k \in Columns \cup OrmAttributes
    THEN [c \in Columns |-> IF c \in DOMAIN updates THEN updates[c] ELSE row[c]]
    ELSE row

\* for field, value in updates.items(): if hasattr(...): setattr(...)
\* (an attribute that is no column is set on the instance and never stored)
SetAttrs(row, updates) ==
    [c \in Columns |->
        IF c \in DOMAIN updates /\ hasattr(c) THEN updates[c] ELSE row[c]]

\* the columns the flush writes
Dirty(row, obj) == {c \in Columns : obj[c] # row[c]}

\* db.commit(): the UPDATE succeeds when every written column takes its
\* parameter, hcp_name stays NOT NULL and the primary key stays unique
CommitOK(row, obj, dbCasts) ==
    /\ \A c \in Dirty(row, obj) : BindColumn(c, obj[c], dbCasts)[1]
    /\ \A q \in store \ {row} : q.id # obj.id

\* db.refresh(interaction): the row as stored
Refreshed(row, obj, dbCasts) ==
    [c \in Columns |->
        IF c \in Dirty(row, obj) THEN BindColumn(c, obj[c], dbCasts)[2] ELSE row[c]]

----------------------------------------------------------------------------
(* The inputs the model draws from *)

\* the literals the Field descriptions of LogInteractionToolArgs enumerate
InteractionTypes ==
    {Str(<<"S","c","h","e","d","u","l","e","d"," ","V","i","s","i","t">>), Str(<<"U","n","s","c","h","e","d","u","l","e","d"," ","V","i","s","i","t">>), Str(<<"P","h","o","n","e"," ","C","a","l","l">>),
     Str(<<"E","m","a","i","l">>), Str(<<"C","o","n","f","e","r","e","n","c","e">>)}

Sentiments ==
    {Str(<<"P","o","s","i","t","i","v","e">>), Str(<<"N","e","u","t","r","a","l">>), Str(<<"N","e","g","a","t","i","v","e">>), Str(<<"I","n","q","u","i","s","i","t","i","v","e">>)}

\* a request body or tool-argument dict over the ten schema fields: the keys
\* of given, every other field null
Body(given) ==
    [f \in SchemaFields |-> IF f \in DOMAIN given THEN given[f] ELSE None]

BodyFull ==
    Body([hcp_name |-> Str(<<"A","b">>),
          interaction_type |-> Str(<<"P","h","o","n","e"," ","C","a","l","l">>),
          interaction_date |-> Str(<<"2","0","2","4","-","0","1","-","0","5">>),
          interaction_time |-> Str(<<"1","4",":","3","0">>),
          attendees |-> Str(<<"a","t">>),
          topics_discussed |-> Str(<<"t","o">>),
          materials_shared |-> Str(<<"m","a">>),
          observed_sentiment |-> Str(<<"N","e","g","a","t","i","v","e">>),
          outcomes |-> Str(<<"o","u">>),
          follow_up_actions |-> Str(<<"s","e","n","d"," ","b","r","o","c","h","u","r","e">>)])

BodyNulls == Body([hcp_name |-> Str(<<"a","x","b">>)])

BodyOdd ==
    Body([hcp_name |-> Str(<<"A","b">>),
          interaction_type |-> Str(<<"S","m","o","k","e"," ","S","i","g","n","a","l">>),
          observed_sentiment |-> Str(<<"N","e","g","a","t","i","v","e">>),
          follow_up_actions |-> Str(<<>>)])

BodyNoName == Body([outcomes |-> Str(<<"o","u">>)])

BodyBadDate ==
    Body([hcp_name |-> Str(<<"A","b">>), interaction_date |-> Str(<<"2","0","2","4","-","1","3","-","4","5">>)])

\* bodies posted to /api/interactions
Bodies == {BodyFull, BodyNulls, BodyOdd, BodyNoName, BodyBadDate}

\* arguments the planner extracts for log_interaction
LogArgs == {BodyFull, BodyOdd, BodyBadDate}

\* hcp_name arguments of query_hcp_history and suggest_next_best_action
HcpNames == {Str(<<"a","b">>), Str(<<"a","_","b">>), Str(<<"B">>), Str(<<"z">>), None}

\* product_name arguments of fetch_clinical_data
ProductNames ==
    {Str(<<"V","A","L","C","O","R">>), Str(<<"v","a","l","c","o","r">>), Str(<<"S","o","l","a","r","a">>), Str(<<"u","n","k","n","o","w","n","-","d","r","u","g">>), None}

\* result.content of a planner reply that calls no tool
Contents ==
    {Str(<<"H","e","l","l","o">>), Str(<<>>),
     Str(<<"I","'","m"," ","n","o","t"," ","s","u","r","e"," ","h","o","w"," ","t","o"," ","r","e","s","p","o","n","d"," ","t","o"," ","t","h","a","t",".">>)}

\* interaction_id arguments of edit_interaction
EditIds == {IntVal(1), IntVal(2), None}

\* updates arguments of edit_interaction
UpdateDicts ==
    { ("bogus" :> Str(<<"x">>)),
      ("bogus" :> Str(<<"x">>)) @@ ("metadata" :> Str(<<"x">>)),
      ("bogus" :> Str(<<"x">>)) @@ ("outcomes" :> Str(<<"o","k">>))
          @@ ("observed_sentiment" :> Str(<<"N","e","g","a","t","i","v","e">>)),
      ("bogus" :> Str(<<"x">>)) @@ ("hcp_name" :> None) @@ ("outcomes" :> Str(<<"o","k">>)),
      ("follow_up_actions" :> Str(<<"s","e","n","d"," ","b","r","o","c","h","u","r","e">>)),
      ("metadata" :> Str(<<"x">>)) @@ ("follow_up_actions" :> Str(<<>>)),
      ("interaction_type" :> Str(<<"S","m","o","k","e"," ","S","i","g","n","a","l">>))
          @@ ("observed_sentiment" :> Str(<<"A","n","g","r","y">>)),
      ("id" :> IntVal(7)),
      ("id" :> IntVal(2)) @@ ("bogus" :> Str(<<"x">>)),
      ("created_at" :> None),
      ("bogus" :> Str(<<"x">>)) @@ ("interaction_date" :> Str(<<"2","0","2","4","-","0","1","-","0","5">>))
          @@ ("follow_up_actions" :> None) }

----------------------------------------------------------------------------
(* State *)

NoRequest == [name |-> "none", args |-> <<>>]
NoResponse == [status_code |-> 0, response_type |-> "none", data |-> <<>>]

\* the requests that run concurrently
Requests == 1..MaxRequests

\* a request whose edit has not started: get_db has opened its session
IdleSession ==
    [pc |-> "idle", args |-> <<>>, interaction |-> <<>>, obj |-> <<>>,
     order |-> 0, response |-> NoResponse]

\* models.Base.metadata.create_all: the table exists and is empty
Init ==
    /\ store = {}
    /\ nextId = 1
    /\ now = 1
    /\ edits = 0
    /\ request = NoRequest
    /\ response = NoResponse
    /\ sessions = [p \in Requests |-> IdleSession]

\* the id the store gives the next inserted row: the store's own counter,
\* which only grows
AssignId == nextId

\* the counter once a row holds id: it stays above every id in the table
CounterAfter(id) == IF id >= nextId THEN id + 1 ELSE nextId

\* POST /api/interactions
save_interaction(body) ==
    /\ UNCHANGED sessions
    /\ request' = [name |-> "save_interaction", args |-> body]
    /\ IF ~InteractionCreateValid(body)
       THEN /\ response' = [status_code |-> 422,
                            response_type |-> "RequestValidationError",
                            data |-> <<>>]
            /\ UNCHANGED <<store, nextId, now, edits>>
       ELSE /\ Cardinality(store) < MaxRecords
            /\ LET db_interaction == NewRow(body, AssignId, now)
               IN  /\ store' = store \cup {db_interaction}
                   /\ response' = [status_code |-> 200,
                                   response_type |-> "InteractionRead",
                                   data |-> db_interaction]
            /\ nextId' = CounterAfter(AssignId)
            /\ now' = now + 1
            /\ UNCHANGED edits

\* invoke_agent, tool_name == 'log_interaction'
log_interaction(tool_args) ==
    /\ UNCHANGED sessions
    /\ request' = [name |-> "log_interaction", args |-> tool_args]
    /\ response' = AgentResponse("form_data", tool_args)
    /\ UNCHANGED <<store, nextId, now, edits>>

\* the query response for the filtered rows
QueryResponse(hcp_name, rows) ==
    IF rows = {}
    THEN TextMessage(<<"No history found for '", PyStr(hcp_name), "'.">>)
    ELSE FormDataOf(Latest(rows))

\* invoke_agent, tool_name == 'query_hcp_history'
query_hcp_history(tool_args) ==
    /\ UNCHANGED sessions
    /\ request' = [name |-> "query_hcp_history", args |-> tool_args]
    /\ response' = QueryResponse(tool_args.hcp_name, History(tool_args.hcp_name))
    /\ UNCHANGED <<store, nextId, now, edits>>

\* invoke_agent, tool_name == 'edit_interaction'
edit_interaction(tool_args) ==
    LET interaction_id == tool_args.interaction_id
        updates == tool_args.updates
        found == ById(interaction_id)
    IN  /\ request' = [name |-> "edit_interaction", args |-> tool_args]
        /\ UNCHANGED sessions
        /\ IF found = {}
           THEN /\ response' = TextMessage(<<"Error: Interaction ",
                                             PyStr(interaction_id), " not found.">>)
                /\ UNCHANGED <<store, nextId, now, edits>>
           ELSE \E dbCasts \in BOOLEAN :
                LET interaction == CHOOSE r \in found : TRUE
                    obj == SetAttrs(interaction, updates)
                    row == Refreshed(interaction, obj, dbCasts)
                IN  /\ edits < MaxEdits
                    /\ edits' = edits + 1
                    /\ UNCHANGED now
                    /\ IF CommitOK(interaction, obj, dbCasts)
                       THEN /\ store' = (store \ {interaction}) \cup {row}
                            /\ nextId' = CounterAfter(IdOf(row))
                            /\ response' = FormDataOf(row)
                       ELSE /\ response' = ToolError
                            /\ UNCHANGED <<store, nextId>>

\* mutant of SuggestionForLatest: the sentiment rule is tried first
SuggestionForLatest_SentimentFirst(hcp_name, latest) ==
    IF latest.observed_sentiment = Str(<<"N","e","g","a","t","i","v","e">>)
    THEN TextMessage(<<"Last sentiment was Negative. Suggestion: Schedule call to address concerns.">>)
    ELSE IF Truthy(latest.follow_up_actions)
    THEN TextMessage(<<"Last to-do was: '", PyStr(latest.follow_up_actions),
                       "'. Suggestion: Complete this.">>)
    ELSE TextMessage(<<"Last interaction with ", PyStr(hcp_name), " was on ",
                       PyStr(latest.interaction_date),
                       ". Suggestion: Plan a check-in.">>)

\* the rule chain on the latest row
SuggestionForLatest(hcp_name, latest) ==
    IF Truthy(latest.follow_up_actions)
    THEN TextMessage(<<"Last to-do was: '", PyStr(latest.follow_up_actions),
                       "'. Suggestion: Complete this.">>)
    ELSE IF latest.observed_sentiment = Str(<<"N","e","g","a","t","i","v","e">>)
    THEN TextMessage(<<"Last sentiment was Negative. Suggestion: Schedule call to address concerns.">>)
    ELSE TextMessage(<<"Last interaction with ", PyStr(hcp_name), " was on ",
                       PyStr(latest.interaction_date),
                       ". Suggestion: Plan a check-in.">>)

\* the suggestion for the filtered rows
Suggestion(hcp_name, interactions) ==
    IF interactions = {}
    THEN TextMessage(<<"No history for ", PyStr(hcp_name),
                       ". Suggestion: Schedule intro meeting.">>)
    ELSE SuggestionForLatest(hcp_name, Latest(interactions))

\* invoke_agent, tool_name == 'suggest_next_best_action'
suggest_next_best_action(tool_args) ==
    /\ UNCHANGED sessions
    /\ request' = [name |-> "suggest_next_best_action", args |-> tool_args]
    /\ response' = Suggestion(tool_args.hcp_name, History(tool_args.hcp_name))
    /\ UNCHANGED <<store, nextId, now, edits>>

\* invoke_agent, tool_name == 'fetch_clinical_data'
fetch_clinical_data(tool_args) ==
    LET product_name == tool_args.product_name
    IN  /\ request' = [name |-> "fetch_clinical_data", args |-> tool_args]
        /\ UNCHANGED sessions
        /\ response' =
              IF ~IsStr(product_name)
              THEN ToolError
              ELSE TextMessage(<<ClinicalDataGet(lower(product_name[2]),
                                                 "No data found for that product.")>>)
        /\ UNCHANGED <<store, nextId, now, edits>>

\* invoke_agent, any other tool name: the planner's direct_response
direct_response(tool_args) ==
    /\ UNCHANGED sessions
    /\ request' = [name |-> "direct_response", args |-> tool_args]
    /\ response' = TextMessage(<<<<"I","'","m"," ","n","o","t"," ","s","u","r","e"," ","h","o","w"," ","t","o"," ","r","e","s","p","o","n","d"," ","t","o"," ","t","h","a","t",".">>>>)
    /\ UNCHANGED <<store, nextId, now, edits>>

RECURSIVE OrderByIdDesc(_)
\* order_by(Interaction.id.desc())
OrderByIdDesc(rows) ==
    IF rows = {} THEN <<>>
    ELSE <<Latest(rows)>> \o OrderByIdDesc(rows \ {Latest(rows)})

\* .offset(skip).limit(limit)
OffsetLimit(seq, skip, limit) ==
    SubSeq(seq, skip + 1, IF skip + limit < Len(seq) THEN skip + limit ELSE Len(seq))

\* an InteractionRead in the JSON the response carries: dates and times in
\* their isoformat, every other value as it is
JsonOf(row) ==
    [c \in Columns |->
        CASE row[c][1] = "date" -> Str(DateIsoFormat(row[c][2]))
          [] row[c][1] = "time" -> Str(TimeIsoFormat(row[c][2]))
          [] OTHER -> row[c]]

\* query parameters of GET /api/interactions
Skips == {0, 1}
Limits == {1, 100}

\* the response to a request whose handler lets an exception escape: the
\* framework's plain 500
ServerError ==
    [status_code |-> 500, response_type |-> "ServerError",
     data |-> <<"Internal Server Error">>]

\* invoke_agent, agent_graph.invoke raises (the model call fails): the call
\* stands before the try block, nothing has touched the table
agent_graph_invoke_raises ==
    /\ UNCHANGED sessions
    /\ request' = [name |-> "agent_graph.invoke", args |-> <<>>]
    /\ response' = ServerError
    /\ UNCHANGED <<store, nextId, now, edits>>

\* GET /api/interactions: the rows by id descending; response_model
\* List[InteractionRead] validates every returned row, and a row it refuses
\* makes the request fail
get_all_interactions(skip, limit) ==
    LET rows == OffsetLimit(OrderByIdDesc(store), skip, limit)
    IN  /\ UNCHANGED sessions
        /\ request' = [name |-> "get_all_interactions",
                       args |-> [skip |-> skip, limit |-> limit]]
        /\ response' =
              IF \A i \in 1..Len(rows) : InteractionReadValid(rows[i])
              THEN [status_code |-> 200, response_type |-> "InteractionReadList",
                    data |-> [i \in 1..Len(rows) |-> JsonOf(rows[i])]]
              ELSE ServerError
        /\ UNCHANGED <<store, nextId, now, edits>>

Next ==
    \/ \E body \in Bodies : save_interaction(body)
    \/ \E skip \in Skips, limit \in Limits : get_all_interactions(skip, limit)
    \/ \E a \in LogArgs : log_interaction(a)
    \/ \E h \in HcpNames : query_hcp_history([hcp_name |-> h])
    \/ \E i \in EditIds, u \in UpdateDicts :
          edit_interaction([interaction_id |-> i, updates |-> u])
    \/ \E h \in HcpNames : suggest_next_best_action([hcp_name |-> h])
    \/ \E p \in ProductNames : fetch_clinical_data([product_name |-> p])
    \/ \E c \in Contents : direct_response([content |-> c])
    \/ agent_graph_invoke_raises

Spec == Init /\ [][Next]_vars

\* The requests that write the table.  The other tools leave store, nextId,
\* now and edits alone, so the tables reachable here are those of Spec.
NextStore ==
    \/ \E body \in Bodies : save_interaction(body)
    \/ \E i \in EditIds, u \in UpdateDicts :
          edit_interaction([interaction_id |-> i, updates |-> u])

SpecStore == Init /\ [][NextStore]_vars

\* The writing requests and the suggestion tool
NextSuggest ==
    \/ NextStore
    \/ \E h \in HcpNames : suggest_next_best_action([hcp_name |-> h])

SpecSuggest == Init /\ [][NextSuggest]_vars

----------------------------------------------------------------------------
(* Concurrent edits: each request runs the edit branch in its own session,  *)
(* as three steps against the table: the lookup, the commit, the refresh.   *)
(* The database runs each statement atomically on the committed rows.       *)

\* updates arguments of the concurrent edit requests
ConcurrentUpdates ==
    { ("outcomes" :> Str(<<"o","k">>)),
      ("outcomes" :> Str(<<"o","u">>)),
      ("outcomes" :> Str(<<"n","o">>)) @@ ("follow_up_actions" :> Str(<<"l","a","t","e","r">>)),
      ("id" :> IntVal(7)) }

\* bodies posted before the concurrent edits
ConcurrentBodies == {BodyFull, BodyNulls}

\* how many requests have committed
Committed == Cardinality({q \in Requests : sessions[q].order > 0})

\* the session of request p ends with response resp
Finish(p, resp) ==
    sessions' = [sessions EXCEPT ![p].pc = "done", ![p].response = resp]

\* the lookup by id, then the setattr loop on the loaded instance
edit_lookup(p, tool_args) ==
    LET found == ById(tool_args.interaction_id)
    IN  /\ sessions[p].pc = "idle"
        /\ IF found = {}
           THEN sessions' = [sessions EXCEPT
                    ![p].pc = "done",
                    ![p].args = tool_args,
                    ![p].response =
                        TextMessage(<<"Error: Interaction ",
                                      PyStr(tool_args.interaction_id),
                                      " not found.">>)]
           ELSE LET interaction == CHOOSE r \in found : TRUE
                IN  sessions' = [sessions EXCEPT
                        ![p].pc = "loaded",
                        ![p].args = tool_args,
                        ![p].interaction = interaction,
                        ![p].obj = SetAttrs(interaction, tool_args.updates)]
        /\ UNCHANGED <<store, nextId, now, edits, request, response>>

\* the row the UPDATE ... WHERE id = <loaded id> leaves: the columns the
\* session changed are written, the others keep what the table holds
Updated(cur, interaction, obj, dbCasts) ==
    [c \in Columns |->
        IF c \in Dirty(interaction, obj)
        THEN BindColumn(c, obj[c], dbCasts)[2] ELSE cur[c]]

\* db.commit(): the flush writes the columns whose value differs from the
\* loaded one; without such a column no UPDATE is sent.  The UPDATE fails
\* when no row has the loaded id any more (StaleDataError), a parameter is
\* refused or the primary key collides.
edit_commit(p) ==
    LET interaction == sessions[p].interaction
        obj == sessions[p].obj
        target == {r \in store : r.id = interaction.id}
    IN  /\ sessions[p].pc = "loaded"
        /\ UNCHANGED <<now, edits, request, response>>
        /\ IF Dirty(interaction, obj) = {}
           THEN /\ sessions' = [sessions EXCEPT ![p].pc = "committed",
                                                ![p].order = Committed + 1]
                /\ UNCHANGED <<store, nextId>>
           ELSE \E dbCasts \in BOOLEAN :
                IF /\ target # {}
                   /\ \A c \in Dirty(interaction, obj) :
                         BindColumn(c, obj[c], dbCasts)[1]
                   /\ \A q \in store \ target : q.id # obj.id
                THEN LET cur == CHOOSE r \in target : TRUE
                         row == Updated(cur, interaction, obj, dbCasts)
                     IN  /\ store' = (store \ {cur}) \cup {row}
                         /\ nextId' = CounterAfter(IdOf(row))
                         /\ sessions' = [sessions EXCEPT
                                ![p].pc = "committed",
                                ![p].order = Committed + 1]
                ELSE /\ Finish(p, ToolError)
                     /\ UNCHANGED <<store, nextId>>

\* db.refresh(interaction) re-reads the row by its primary key, then
\* InteractionRead.from_orm builds the response
edit_refresh(p) ==
    LET rows == {r \in store : r.id = sessions[p].obj.id}
    IN  /\ sessions[p].pc = "committed"
        /\ Finish(p, IF rows = {} THEN ToolError
                     ELSE FormDataOf(CHOOSE r \in rows : TRUE))
        /\ UNCHANGED <<store, nextId, now, edits, request, response>>

NextConcurrent ==
    \/ \E body \in ConcurrentBodies : save_interaction(body)
    \/ \E p \in Requests, i \in EditIds, u \in ConcurrentUpdates :
          edit_lookup(p, [interaction_id |-> i, updates |-> u])
    \/ \E p \in Requests : edit_commit(p)
    \/ \E p \in Requests : edit_refresh(p)

SpecConcurrent == Init /\ [][NextConcurrent]_vars

----------------------------------------------------------------------------
(* Vocabulary of the properties *)

IsFormData(resp, row) == resp.response_type = "form_data" /\ resp.data = row
IsText(resp, parts) == resp.response_type = "text_message" /\ resp.data = parts
IsInternalError(resp) == resp.status_code = 500

\* sub occurs in s as a contiguous run
Contains(s, sub) ==
    \E i \in 0..(Len(s) - Len(sub)) : SubSeq(s, i + 1, i + Len(sub)) = sub

\* the value a column holds once v has been written to it
StoredForm(c, v) ==
    IF c = "interaction_date" /\ IsStr(v) THEN Date(v[2])
    ELSE IF c = "interaction_time" /\ IsStr(v) THEN Time(v[2])
    ELSE v

\* the step is an Edit dispatch on a row that exists
EditOfExisting ==
    /\ request'.name = "edit_interaction"
    /\ \E r \in store : r.id = request'.args.interaction_id

EditedRow == CHOOSE r \in store : r.id = request'.args.interaction_id

\* at least one key that is no column, mixed with schema field keys
MixedUpdates(u) ==
    /\ DOMAIN u \ Columns # {}
    /\ DOMAIN u \cap SchemaFields # {}

\* the store cannot take the values: a null or non-string hcp_name, a malformed
\* date or time, an id that is no integer or is another row's
MustRefuse(old, u) ==
    \/ "hcp_name" \in DOMAIN u /\ ~IsStr(u["hcp_name"])
    \/ "interaction_date" \in DOMAIN u /\ IsStr(u["interaction_date"])
          /\ ~IsIsoDate(u["interaction_date"][2])
    \/ "interaction_time" \in DOMAIN u /\ IsStr(u["interaction_time"])
          /\ ~IsIsoTime(u["interaction_time"][2])
    \/ "id" \in DOMAIN u
          /\ (~IsInt(u["id"]) \/ \E q \in store \ {old} : q.id = u["id"])

\* the store may refuse the values: as above, or a date or time given as a
\* string, which only some databases bind
MayRefuse(old, u) ==
    \/ MustRefuse(old, u)
    \/ "interaction_date" \in DOMAIN u /\ IsStr(u["interaction_date"])
    \/ "interaction_time" \in DOMAIN u /\ IsStr(u["interaction_time"])

\* new is old with every column key of u written and nothing else changed
Applied(old, new, u) ==
    \A c \in Columns :
        new[c] = IF c \in DOMAIN u THEN StoredForm(c, u[c]) ELSE old[c]

----------------------------------------------------------------------------
(* C1 *)

----------------------------------------------------------------------------
(* C2 *)

\* C2 as stated: an Edit on an existing record all of whose keys are
\* unrecognized leaves the record unchanged and answers with a text_message
\* (not found / invalid), not with form_data.
C2_AllUnrecognized ==
    [][(EditOfExisting /\ DOMAIN request'.args.updates \cap Columns = {}) =>
          /\ store' = store
          /\ response'.response_type = "text_message"]_vars

----------------------------------------------------------------------------
(* C3 *)

\* C3 as stated: ids are pairwise distinct, a created record's id is greater
\* than every id assigned before it, and no operation changes the id or
\* created_at of an existing record.
C3_IdentityImmutable ==
    [][/\ \A r \in store', q \in store' : r.id = q.id => r = q
       /\ \A r \in store :
             \E q \in store' : q.id = r.id /\ q.created_at = r.created_at
       /\ request'.name = "save_interaction" =>
             \A q \in store' \ store : \A r \in store : IdOf(q) > IdOf(r)]_vars

----------------------------------------------------------------------------
(* C4 *)

\* C4 as stated: every stored record has interaction_type null or one of the
\* five literals and observed_sentiment null or one of the four literals.
C4_EnumDomains ==
    \A r \in store :
        /\ r.interaction_type \in {None} \cup InteractionTypes
        /\ r.observed_sentiment \in {None} \cup Sentiments

----------------------------------------------------------------------------
(* C5 *)

\* C5: an Edit whose interaction_id matches no stored record answers with the
\* text_message "Error: Interaction <id> not found.", not with an error
\* response, and leaves the store unchanged.
C5_EditNotFound ==
    [][(/\ request'.name = "edit_interaction"
        /\ ~\E r \in store : r.id = request'.args.interaction_id) =>
          /\ IsText(response', <<"Error: Interaction ",
                                 PyStr(request'.args.interaction_id), " not found.">>)
          /\ response'.status_code = 200
          /\ store' = store]_vars

\* an Edit for an id no row has was answered, with rows in the store
C5_Witness ==
    /\ request.name = "edit_interaction"
    /\ store # {}
    /\ ~\E r \in store : r.id = request.args.interaction_id
    /\ response.response_type = "text_message"

----------------------------------------------------------------------------
(* C6 *)

\* the validation of section 4.1 of the specification on extracted arguments
LogArgsValid(a) ==
    /\ a.interaction_type \in {None} \cup InteractionTypes
    /\ a.observed_sentiment \in {None} \cup Sentiments
    /\ IsNone(a.interaction_date) \/ IsIsoDate(a.interaction_date[2])
    /\ IsNone(a.interaction_time) \/ IsIsoTime(a.interaction_time[2])

\* C6 as stated: a Log dispatch whose arguments fail validation answers with a
\* text_message and inserts nothing; form_data only when all fields validate.
C6_LogValidates ==
    (request.name = "log_interaction" /\ ~LogArgsValid(request.args)) =>
        response.response_type = "text_message"

----------------------------------------------------------------------------
(* C7 *)

TodoMessage(todo) ==
    <<"Last to-do was: '", todo, "'. Suggestion: Complete this.">>

NegativeMessage ==
    <<"Last sentiment was Negative. Suggestion: Schedule call to address concerns.">>

\* C7: a Suggest whose latest matching record has both a follow_up_actions
\* text and observed_sentiment Negative answers with the follow-up suggestion
\* quoting the to-do verbatim, not with the negative-sentiment suggestion; with
\* no matching record it answers with the intro-meeting suggestion.
C7_FollowUpBeforeSentiment ==
    request.name = "suggest_next_best_action" =>
        LET rows == History(request.args.hcp_name)
        IN  IF rows = {}
            THEN IsText(response, <<"No history for ", PyStr(request.args.hcp_name),
                                    ". Suggestion: Schedule intro meeting.">>)
            ELSE (/\ IsStr(Latest(rows).follow_up_actions)
                  /\ Len(Latest(rows).follow_up_actions[2]) > 0
                  /\ Latest(rows).observed_sentiment = Str(<<"N","e","g","a","t","i","v","e">>)) =>
                    /\ IsText(response, TodoMessage(Latest(rows).follow_up_actions[2]))
                    /\ ~IsText(response, NegativeMessage)

\* a Suggest answered for a latest record with "send brochure" and Negative
C7_Witness ==
    /\ request.name = "suggest_next_best_action"
    /\ History(request.args.hcp_name) # {}
    /\ Latest(History(request.args.hcp_name)).follow_up_actions = Str(<<"s","e","n","d"," ","b","r","o","c","h","u","r","e">>)
    /\ Latest(History(request.args.hcp_name)).observed_sentiment = Str(<<"N","e","g","a","t","i","v","e">>)
    /\ IsText(response, TodoMessage(<<"s","e","n","d"," ","b","r","o","c","h","u","r","e">>))

----------------------------------------------------------------------------
(* C8 *)

IsTodoMessage(resp) ==
    /\ resp.response_type = "text_message"
    /\ Len(resp.data) = 3
    /\ resp.data[1] = "Last to-do was: '"

\* C8 as stated: rule (b) fires exactly when the latest matching record's
\* follow_up_actions is non-null, the empty string included.
C8_AsStated ==
    (request.name = "suggest_next_best_action"
        /\ History(request.args.hcp_name) # {}) =>
        (IsTodoMessage(response) <=>
            ~IsNone(Latest(History(request.args.hcp_name)).follow_up_actions))

\* C8 amended: rule (b) fires exactly when the latest matching record's
\* follow_up_actions is neither null nor the empty string; with null or the
\* empty string the negative-sentiment rule or the generic check-in answers.
C8_NonEmptyTodo ==
    (request.name = "suggest_next_best_action"
        /\ History(request.args.hcp_name) # {}) =>
        LET todo == Latest(History(request.args.hcp_name)).follow_up_actions
            filled == IsStr(todo) /\ Len(todo[2]) > 0
        IN  /\ IsTodoMessage(response) <=> filled
            /\ filled => response.data[2] = todo[2]
            /\ ~filled =>
                  \/ IsText(response, NegativeMessage)
                  \/ (response.response_type = "text_message"
                        /\ Len(response.data) = 5
                        /\ response.data[1] = "Last interaction with ")

\* a Suggest answered for a latest record whose to-do is the empty string
C8_Witness ==
    /\ request.name = "suggest_next_best_action"
    /\ History(request.args.hcp_name) # {}
    /\ Latest(History(request.args.hcp_name)).follow_up_actions = Str(<<>>)
    /\ IsText(response, NegativeMessage)

----------------------------------------------------------------------------
(* C9 *)

\* the records whose hcp_name contains name, letter case ignored
SubstringMatches(name) ==
    {r \in store : Contains(lower(r.hcp_name[2]), lower(name))}

\* C9 as stated: a Query answers with form_data of the greatest-id record
\* whose hcp_name contains the requested name as a case-insensitive
\* substring, and with the text_message "No history found ..." when no record
\* contains it; never with an error.
C9_QuerySubstring ==
    (request.name = "query_hcp_history" /\ IsStr(request.args.hcp_name)) =>
        IF SubstringMatches(request.args.hcp_name[2]) # {}
        THEN IsFormData(response, Latest(SubstringMatches(request.args.hcp_name[2])))
        ELSE IsText(response, <<"No history found for '",
                                request.args.hcp_name[2], "'.">>)

----------------------------------------------------------------------------
(* C10 *)

\* C10 as stated: FetchClinicalData answers with a text_message that depends
\* only on the case-folded product_name: the mapped summary, or "No data found
\* for that product." for any other name, an absent (null) name included;
\* never with an error response.
C10_FetchCaseFolded ==
    request.name = "fetch_clinical_data" =>
        /\ response.response_type = "text_message"
        /\ ~IsInternalError(response)
        /\ response.data =
              IF IsStr(request.args.product_name)
                  /\ lower(request.args.product_name[2]) \in DOMAIN MOCK_CLINICAL_DATA
              THEN <<MOCK_CLINICAL_DATA[lower(request.args.product_name[2])]>>
              ELSE <<"No data found for that product.">>

----------------------------------------------------------------------------
(* C11 *)

\* C11 as stated: when the planner selects no tool (the direct_response
\* pseudo tool call carrying the reply's content), the dispatcher answers
\* with a text_message whose data is exactly that content.
C11_DirectReplyVerbatim ==
    request.name = "direct_response" =>
        IsText(response, <<request.args.content[2]>>)

----------------------------------------------------------------------------
(* C12 *)

\* the two fixed internal-error bodies; neither carries exception text
GenericErrors == {ToolError.data, ServerError.data}

\* C12 as stated: a request that ends in an unexpected exception is answered
\* with the generic internal-error response (status 500, a fixed message
\* without internal detail) and leaves the store unchanged.
C12_InternalErrorGeneric ==
    [][IsInternalError(response') =>
          /\ response'.data \in GenericErrors
          /\ store' = store]_vars

----------------------------------------------------------------------------
(* C13 *)

\* requests p and q have both run Edit on the same record to the end
BothEdited(p, q) ==
    /\ p # q
    /\ sessions[p].pc = "done" /\ sessions[q].pc = "done"
    /\ sessions[p].interaction # <<>> /\ sessions[q].interaction # <<>>
    /\ sessions[p].args.interaction_id = sessions[q].args.interaction_id

\* the columns both requests update
SharedFields(p, q) ==
    DOMAIN sessions[p].args.updates \cap DOMAIN sessions[q].args.updates
        \cap Columns

\* C13 as stated: when two requests run Edit on the same record, under every
\* interleaving of their lookups, commits and refreshes both end with a
\* form_data response, and every field both update holds at the end the
\* value written by the request that committed last.
C13_LastWriterWins ==
    \A p, q \in Requests :
        (BothEdited(p, q) /\ sessions[q].order >= sessions[p].order) =>
            /\ sessions[p].response.response_type = "form_data"
            /\ sessions[q].response.response_type = "form_data"
            /\ \E r \in store :
                  /\ r.id = sessions[q].obj.id
                  /\ \A f \in SharedFields(p, q) :
                        r[f] = StoredForm(f, sessions[q].args.updates[f])

----------------------------------------------------------------------------
(* C14 *)

\* the step lists the records right after a record was created
CreateThenGet ==
    /\ request.name = "save_interaction" /\ response.status_code = 200
    /\ request'.name = "get_all_interactions"
    /\ request'.args.skip = 0 /\ request'.args.limit >= 1

\* C14 as stated: save_interaction of a valid candidate followed by
\* get_all_interactions returns, as the first element of the list, a record
\* equal to the candidate in each of the ten schema fields, nulls included.
C14_CreateGetRoundTrip ==
    [][CreateThenGet =>
          /\ response'.status_code = 200
          /\ Len(response'.data) >= 1
          /\ \A f \in SchemaFields : response'.data[1][f] = request.args[f]]_vars

====
